---- MODULE Spec2Model ----
(***************************************************************************)
(* Model of bot.py: the long-poll update dispatcher of main(), the         *)
(* per-user wallet_context, the cleanup timers of schedule_cleanup, the    *)
(* monthly baseline file and the exchange client the handlers call.        *)
(*                                                                         *)
(* Conventions.  Python None is the integer None (-1) where the value is   *)
(* otherwise a positive integer (update offset, message ids), and NoChat   *)
(* where it is a chat id.  A text is a sequence of one-character strings   *)
(* where the code inspects it (inbound command text) and a sequence of     *)
(* string pieces where the code builds it (replies: the pieces of the      *)
(* f-string, in order).  A call to an external service has one of the      *)
(* outcomes "ok", "fail" (the service answered with an error) or "raise"   *)
(* (requests raised: transport error, timeout, malformed body).            *)
(***************************************************************************)
EXTENDS Integers, Sequences, FiniteSets, TLC

\* ------------------------------------------------------------ bounds ----
\* Updates the chat platform creates over a run.
MaxUpdates == 2
\* Updates one getUpdates call returns at most.
MaxBatch == 2
\* The clock value at which the run is cut off.
MaxClock == 4
\* The last month key of a run; the first is 1.
MaxMonth == 2
\* The largest amount, in either sign, in an account the exchange reports to
\* a function taken alone.
MaxAmount == 2
\* Updates users cause in one run of the wallet menu, which takes a command
\* and a press and a third update around them.
MaxMenuUpdates == 3

\* ----------------------------------------------------- configuration ----
None == -1
NoChat == "NoChat"
Chats == {"A", "B"}
\* Telegram user ids; USERS holds the ones load_users found credentials for.
UserIds == {1, 2}
USERS == {1}

COMMANDS_DELETE_SECONDS == 8
PNL_DELETE_SECONDS == 7
IDS_DELETE_SECONDS == 5
AUTO_DELETE_SECONDS == 5
\* The alert cooldown (an environment setting; 2700 when unset).
BTC_ALERT_SECONDS == 2

\* A lookup that finds a client for everybody.
get_client_any(user_id) == TRUE

get_client_for_user(user_id) == user_id \in USERS

\* ------------------------------------------------------ inbound text ----
UpperCase == <<"A","B","C","D","E","F","G","H","I","J","K","L","M",
               "N","O","P","Q","R","S","T","U","V","W","X","Y","Z">>
LowerCase == <<"a","b","c","d","e","f","g","h","i","j","k","l","m",
               "n","o","p","q","r","s","t","u","v","w","x","y","z">>

\* str.lower() on one character.
LowerChar(c) ==
  IF \E i \in 1..26 : UpperCase[i] = c
  THEN LowerCase[CHOOSE i \in 1..26 : UpperCase[i] = c]
  ELSE c

\* A lower() that leaves the text as typed.
LowerNone(s) == s

\* str.lower()
Lower(s) == [i \in 1..Len(s) |-> LowerChar(s[i])]

IsSpace(c) == c \in {" ", "\n", "\t"}

RECURSIVE LStrip(_)
LStrip(s) == IF s # <<>> /\ IsSpace(Head(s)) THEN LStrip(Tail(s)) ELSE s

RECURSIVE RStrip(_)
RStrip(s) ==
  IF s # <<>> /\ IsSpace(s[Len(s)]) THEN RStrip(SubSeq(s, 1, Len(s) - 1)) ELSE s

\* str.strip()
Strip(s) == RStrip(LStrip(s))

\* str.startswith(p)
StartsWith(s, p) == Len(s) >= Len(p) /\ SubSeq(s, 1, Len(p)) = p

P_commands == <<"/","c","o","m","m","a","n","d","s">>
P_comandos == <<"/","c","o","m","a","n","d","o","s">>
P_ids == <<"/","i","d","s">>
P_id == <<"/","i","d">>
P_pnl == <<"/","p","n","l">>
P_mensal == <<"/","m","e","n","s","a","l">>
P_wallet == <<"/","w","a","l","l","e","t">>
P_saldo == <<"/","s","a","l","d","o">>

\* text_l of main(): the stripped, lower-cased message text.
TextL(text) == Lower(Strip(text))

IsCommands(text) ==
  StartsWith(TextL(text), P_commands) \/ StartsWith(TextL(text), P_comandos)
IsIds(text) ==
  StartsWith(TextL(text), P_ids) \/ StartsWith(TextL(text), P_id)
IsPnl(text) ==
  StartsWith(TextL(text), P_pnl) \/ StartsWith(TextL(text), P_mensal)
IsWallet(text) ==
  StartsWith(TextL(text), P_wallet) \/ StartsWith(TextL(text), P_saldo)

\* A message text that is no command.
T_hello == <<"h","i">>

\* callback_data values of kb_wallet_menu.
KnownTokens == {"pos:open", "cap:free", "cap:trade"}

\* ---------------------------------------------------- exchange client ----
\* A response of the exchange to one request: what requests.get(...).json()
\* gives, or raise = TRUE when the request raises.  list holds the entries of
\* result.list.
Resp(code, msg, lst) == [raise |-> FALSE, retCode |-> code, retMsg |-> msg, list |-> lst]
RaiseResp == [raise |-> TRUE, retCode |-> 0, retMsg |-> "", list |-> <<>>]

Digits == <<"0","1","2","3","4","5","6","7","8","9">>

\* str(n) for an integer n, one piece per character.
RECURSIVE Dec(_)
Dec(n) ==
  IF n < 0 THEN <<"-">> \o Dec(0 - n)
  ELSE IF n < 10 THEN <<Digits[n + 1]>>
  ELSE Dec(n \div 10) \o <<Digits[(n % 10) + 1]>>

AccountTypes == <<"UNIFIED", "CONTRACT", "SPOT">>

NoAcc == [totalWalletBalance |-> 0, totalEquity |-> 0, totalMarginBalance |-> 0,
          totalAvailableBalance |-> 0, totalPositionIM |-> 0,
          totalInitialMargin |-> 0, totalOrderIM |-> 0,
          totalMaintenanceMargin |-> 0]

\* BybitClient.wallet_best, from attempt i on; resps[i] is the exchange's
\* answer for AccountTypes[i] and last the remembered failure.  calls counts
\* the requests made; raised tells that sign_get raised.
RECURSIVE wallet_best_from(_, _, _)
wallet_best_from(resps, i, last) ==
  IF i > Len(AccountTypes)
  THEN [acc |-> NoAcc, err |-> last, acct |-> "", calls |-> i - 1, raised |-> FALSE]
  ELSE IF resps[i].raise
  THEN [acc |-> NoAcc, err |-> <<>>, acct |-> "", calls |-> i, raised |-> TRUE]
  ELSE IF resps[i].retCode = 0
  THEN IF resps[i].list # <<>>
       THEN [acc |-> resps[i].list[1], err |-> <<>>, acct |-> AccountTypes[i],
             calls |-> i, raised |-> FALSE]
       ELSE [acc |-> NoAcc, err |-> <<"Empty response">>, acct |-> AccountTypes[i],
             calls |-> i, raised |-> FALSE]
  ELSE wallet_best_from(resps, i + 1,
         <<resps[i].retMsg, " (retCode=">> \o Dec(resps[i].retCode)
           \o <<", acct=", AccountTypes[i], ")">>)

wallet_best(resps) == wallet_best_from(resps, 1, <<>>)

Attempts == << <<"linear", "USDT">>, <<"linear", "USDC">>,
               <<"inverse", "BTC">>, <<"inverse", "USDT">> >>

\* The positions of one response, those of size 0 included.
OpenOfAll(lst) ==
  [k \in 1..Len(lst) |->
     [symbol |-> lst[k].symbol, side |-> lst[k].side,
      size |-> lst[k].size, upl |-> lst[k].unrealisedPnl]]

\* The positions of one response with size > 0, as open_positions_all keeps
\* them.
OpenOf(lst) ==
  SelectSeq([k \in 1..Len(lst) |->
               [symbol |-> lst[k].symbol, side |-> lst[k].side,
                size |-> lst[k].size, upl |-> lst[k].unrealisedPnl]],
            LAMBDA p : p.size > 0)

\* BybitClient.open_positions_all, from attempt i on.  A result with
\* none = TRUE is the (None, last_err) return.
RECURSIVE open_positions_from(_, _, _, _)
open_positions_from(resps, i, positions, last_err) ==
  IF i > Len(Attempts)
  THEN IF positions = <<>> /\ last_err # <<>>
       THEN [none |-> TRUE, positions |-> <<>>, err |-> last_err,
             calls |-> i - 1, raised |-> FALSE]
       ELSE [none |-> FALSE, positions |-> positions, err |-> <<>>,
             calls |-> i - 1, raised |-> FALSE]
  ELSE IF resps[i].raise
  THEN [none |-> TRUE, positions |-> <<>>, err |-> <<>>, calls |-> i, raised |-> TRUE]
  ELSE IF resps[i].retCode # 0
  THEN open_positions_from(resps, i + 1, positions,
         <<resps[i].retMsg, " (retCode=">> \o Dec(resps[i].retCode)
           \o <<", ", Attempts[i][1], "/", Attempts[i][2], ")">>)
  ELSE open_positions_from(resps, i + 1, positions \o OpenOf(resps[i].list), last_err)

open_positions_all(resps) == open_positions_from(resps, 1, <<>>, <<>>)

\* A max() that forgets its floor.
MaxNoFloor(a, b) == b

\* max(a, b)
Max(a, b) == IF a >= b THEN a ELSE b

RECURSIVE SumUpl(_)
SumUpl(ps) == IF ps = <<>> THEN 0 ELSE Head(ps).upl + SumUpl(Tail(ps))

NoMetrics == [acct |-> "", wallet_balance |-> 0, assets_now |-> 0,
              available_margin |-> 0, used |-> 0, pnl_open |-> 0,
              capital_cost |-> 0, capital_free_real |-> 0, equity_mtm |-> 0,
              positions |-> <<>>]

\* The dict compute_trade_metrics returns for account acc and the result pr
\* of open_positions_all.
MetricsOf(acc, acct, pr) ==
  LET wallet_balance == acc.totalWalletBalance
      equity == acc.totalEquity
      margin_balance == acc.totalMarginBalance
      available_margin == acc.totalAvailableBalance
      position_im == IF acc.totalPositionIM <= 0 THEN acc.totalInitialMargin
                     ELSE acc.totalPositionIM
      order_im == acc.totalOrderIM
      maintenance == acc.totalMaintenanceMargin
      assets_now == IF margin_balance > 0 THEN margin_balance ELSE equity
      pnl_open == IF pr.positions # <<>> /\ pr.err = <<>> THEN SumUpl(pr.positions) ELSE 0
  IN [acct |-> acct,
      wallet_balance |-> wallet_balance,
      assets_now |-> assets_now,
      available_margin |-> available_margin,
      used |-> Max(0, assets_now - available_margin),
      pnl_open |-> pnl_open,
      capital_cost |-> assets_now - pnl_open,
      capital_free_real |-> Max(0, wallet_balance - position_im - order_im - maintenance),
      equity_mtm |-> wallet_balance + pnl_open,
      positions |-> pr.positions]

\* compute_trade_metrics(client): sc.wallet and sc.pos are the answers the
\* exchange gives to the wallet and position requests of this call.
compute_trade_metrics(sc) ==
  LET wb == wallet_best(sc.wallet)
      pr == open_positions_all(sc.pos)
  IN IF wb.raised
     THEN [m |-> NoMetrics, err |-> <<>>, calls |-> wb.calls, raised |-> TRUE]
     ELSE IF wb.err # <<>>
     THEN [m |-> NoMetrics, err |-> wb.err, calls |-> wb.calls, raised |-> FALSE]
     ELSE IF pr.raised
     THEN [m |-> NoMetrics, err |-> <<>>, calls |-> wb.calls + pr.calls, raised |-> TRUE]
     ELSE [m |-> MetricsOf(wb.acc, wb.acct, pr), err |-> <<>>,
           calls |-> wb.calls + pr.calls, raised |-> FALSE]

\* bybit_get_ticker_price(symbol), from category i on (linear, inverse).  An
\* entry of list is [markPrice, lastPrice, bad]; bad = TRUE stands for a
\* price float() rejects, which the except clause turns into the next
\* category, as it does a request that raises.
RECURSIVE ticker_from(_, _)
ticker_from(resps, i) ==
  IF i > 2 THEN [price |-> None, src |-> "", calls |-> 2]
  ELSE IF resps[i].raise \/ resps[i].retCode # 0 \/ resps[i].list = <<>>
  THEN ticker_from(resps, i + 1)
  ELSE LET t == resps[i].list[1]
       IN IF t.bad THEN ticker_from(resps, i + 1)
          ELSE IF t.markPrice > 0 THEN [price |-> t.markPrice, src |-> "mark", calls |-> i]
          ELSE IF t.lastPrice > 0 THEN [price |-> t.lastPrice, src |-> "last", calls |-> i]
          ELSE ticker_from(resps, i + 1)

bybit_get_ticker_price(resps) == ticker_from(resps, 1)

\* ------------------------------------------------------ reply texts ----
\* A reply text: parts are the pieces of the f-string in order, nums the
\* numbers it formats (the arguments of fmt_usd and of the other numeric
\* fields), in order.
Text(parts, nums) == [parts |-> parts, nums |-> nums]

NO_ENTRY == "(no-entry sign) "
CROSS == "(cross mark) "
NOT_CONFIGURED == "No API configured for you."
UNKNOWN_OPTION == "Unknown option."
INVALID_CHAT == "Invalid chat."

\* The literal both /wallet and the callback handler send.
NotConfiguredText == Text(<<NO_ENTRY, NOT_CONFIGURED>>, <<>>)
WalletMenuText == Text(<<"Wallet", "Pick an option:">>, <<>>)

fn_commands == Text(<<"Quick Commands", "/wallet", "/pnl", "/ids", "/commands">>, <<>>)

fn_ids(upd) == Text(<<"IDs", "user_id: ", "chat_id: ", upd.chat_id>>, <<upd.user_id>>)

\* What a handler function gives back: the text, the exchange requests it
\* made, whether it raised, and the monthly file as it leaves it.
Out(text, calls, raised, data) ==
  [text |-> text, calls |-> calls, raised |-> raised, data |-> data]

NoText == Text(<<>>, <<>>)

fn_free_balance(user_id, sc, data) ==
  IF ~get_client_for_user(user_id) THEN Out(NotConfiguredText, 0, FALSE, data)
  ELSE LET c == compute_trade_metrics(sc)
       IN IF c.raised THEN Out(NoText, c.calls, TRUE, data)
          ELSE IF c.err # <<>> THEN Out(Text(<<CROSS>> \o c.err, <<>>), c.calls, FALSE, data)
          ELSE Out(Text(<<"Free Balance", c.m.acct>>,
                        <<Max(0, c.m.available_margin), Max(0, c.m.capital_free_real),
                          c.m.wallet_balance, c.m.assets_now>>),
                   c.calls, FALSE, data)

fn_in_trade_cost(user_id, sc, data) ==
  IF ~get_client_for_user(user_id) THEN Out(NotConfiguredText, 0, FALSE, data)
  ELSE LET c == compute_trade_metrics(sc)
       IN IF c.raised THEN Out(NoText, c.calls, TRUE, data)
          ELSE IF c.err # <<>> THEN Out(Text(<<CROSS>> \o c.err, <<>>), c.calls, FALSE, data)
          ELSE Out(Text(<<"In-Trade (Cost)", c.m.acct>>,
                        <<c.m.capital_cost, c.m.equity_mtm, c.m.available_margin,
                          c.m.used, c.m.pnl_open>>),
                   c.calls, FALSE, data)

\* The line of one position in fn_open_positions.
PositionLine(p) == <<p.symbol, p.side>>

RECURSIVE PositionLines(_)
PositionLines(ps) ==
  IF ps = <<>> THEN <<>> ELSE PositionLine(Head(ps)) \o PositionLines(Tail(ps))

RECURSIVE PositionNums(_)
PositionNums(ps) ==
  IF ps = <<>> THEN <<>> ELSE <<Head(ps).size, Head(ps).upl>> \o PositionNums(Tail(ps))

Min(a, b) == IF a <= b THEN a ELSE b

fn_open_positions(user_id, sc, data) ==
  IF ~get_client_for_user(user_id) THEN Out(NotConfiguredText, 0, FALSE, data)
  ELSE LET c == compute_trade_metrics(sc)
           positions == SelectSeq(c.m.positions, LAMBDA p : p.size > 0)
           shown == SubSeq(positions, 1, Min(12, Len(positions)))
       IN IF c.raised THEN Out(NoText, c.calls, TRUE, data)
          ELSE IF c.err # <<>> THEN Out(Text(<<CROSS>> \o c.err, <<>>), c.calls, FALSE, data)
          ELSE IF positions = <<>>
          THEN Out(Text(<<"Open Positions", "- none -">>, <<>>), c.calls, FALSE, data)
          ELSE Out(Text(<<"Open Positions">> \o PositionLines(shown)
                          \o (IF Len(positions) > 12 THEN <<"hidden">> ELSE <<>>),
                        PositionNums(shown)
                          \o (IF Len(positions) > 12 THEN <<Len(positions) - 12>> ELSE <<>>)),
                   c.calls, FALSE, data)

\* -------------------------------------------------- monthly baseline ----
\* One user's entry of monthly_snapshot.json.  month = 0: no entry (or an
\* entry without "month"); has_sw / has_se: the keys "start_wallet" /
\* "start_equity" are present.
NoEntry == [month |-> 0, has_sw |-> FALSE, start_wallet |-> 0,
            has_se |-> FALSE, start_equity |-> 0]

\* A test that takes every query for the first of its month.
IsNewMonthAlways(entry, month) == TRUE

\* if data[key].get("month") != month
IsNewMonth(entry, month) == entry.month # month

\* compute_mtd_pnl_for_user(user_id) in month key `month`, the file holding
\* `file`; saved tells whether save_monthly_data manages to write.  data is
\* the file afterwards.
compute_mtd_pnl_for_user(user_id, sc, month, file, saved) ==
  IF ~get_client_for_user(user_id)
  THEN [ok |-> FALSE, err |-> <<NOT_CONFIGURED>>, calls |-> 0, raised |-> FALSE,
        data |-> file, acct |-> "", start_equity |-> 0, now_equity |-> 0,
        pnl_open |-> 0, pct_num |-> 0, pct_den |-> 1]
  ELSE
  LET c == compute_trade_metrics(sc)
      e0 == file[user_id]
      \* migrate the old key
      migrate == e0.month = month /\ ~e0.has_sw /\ e0.has_se
      e1 == IF migrate
            THEN [e0 EXCEPT !.has_sw = TRUE, !.start_wallet = e0.start_equity]
            ELSE e0
      \* new month => snapshot baseline wallet
      fresh == IsNewMonth(e1, month)
      e2 == IF fresh
            THEN [month |-> month, has_sw |-> TRUE, start_wallet |-> c.m.wallet_balance,
                  has_se |-> FALSE, start_equity |-> 0]
            ELSE e1
      start_wallet == IF e2.has_sw THEN e2.start_wallet ELSE c.m.wallet_balance
      now_equity == c.m.equity_mtm
      written == IF (migrate \/ fresh) /\ saved THEN [file EXCEPT ![user_id] = e2] ELSE file
  IN IF c.raised
     THEN [ok |-> FALSE, err |-> <<>>, calls |-> c.calls, raised |-> TRUE,
           data |-> file, acct |-> "", start_equity |-> 0, now_equity |-> 0,
           pnl_open |-> 0, pct_num |-> 0, pct_den |-> 1]
     ELSE IF c.err # <<>>
     THEN [ok |-> FALSE, err |-> <<"Bybit: ">> \o c.err, calls |-> c.calls,
           raised |-> FALSE, data |-> file, acct |-> "", start_equity |-> 0,
           now_equity |-> 0, pnl_open |-> 0, pct_num |-> 0, pct_den |-> 1]
     ELSE [ok |-> TRUE, err |-> <<>>, calls |-> c.calls, raised |-> FALSE,
           data |-> written, acct |-> c.m.acct, start_equity |-> start_wallet,
           now_equity |-> now_equity, pnl_open |-> c.m.pnl_open,
           \* pct = pct_num / pct_den, kept exact
           pct_num |-> IF start_wallet > 0 THEN (now_equity - start_wallet) * 100 ELSE 0,
           pct_den |-> IF start_wallet > 0 THEN start_wallet ELSE 1]

\* The "Open Assets" lines of fn_pnl for positions ps: one ticker lookup per
\* shown position, each answered by tick.
AssetLines(ps, tick) ==
  LET shown == SubSeq(ps, 1, Min(3, Len(ps)))
      t == bybit_get_ticker_price(tick)
  IN [parts |-> IF ps = <<>> THEN <<>>
                ELSE <<"Open Assets">>
                     \o [k \in 1..Len(shown) |-> shown[k].symbol]
                     \o (IF t.price = None THEN <<"price: n/a">> ELSE <<t.src>>)
                     \o (IF Len(ps) > 3 THEN <<"more">> ELSE <<>>),
      nums |-> (IF t.price = None THEN <<>> ELSE [k \in 1..Len(shown) |-> t.price])
               \o (IF Len(ps) > 3 THEN <<Len(ps) - 3>> ELSE <<>>),
      calls |-> Len(shown) * t.calls]

\* fn_pnl(user_id): sc answers the requests of compute_mtd_pnl_for_user, sc2
\* those of the second compute_trade_metrics, tick the ticker lookups.
fn_pnl(user_id, sc, sc2, tick, month, file, saved) ==
  LET r == compute_mtd_pnl_for_user(user_id, sc, month, file, saved)
      c2 == compute_trade_metrics(sc2)
      lines == IF c2.err # <<>>
               THEN [parts |-> <<>>, nums |-> <<>>, calls |-> 0]
               ELSE AssetLines(SelectSeq(c2.m.positions, LAMBDA p : p.size > 0), tick)
  IN IF r.raised THEN Out(NoText, r.calls, TRUE, r.data)
     ELSE IF ~r.ok THEN Out(Text(<<CROSS>> \o r.err, <<>>), r.calls, FALSE, r.data)
     ELSE IF c2.raised THEN Out(NoText, r.calls + c2.calls, TRUE, r.data)
     ELSE Out(Text(<<"MTD PnL", "month ">> \o Dec(month)
                     \o <<r.acct, IF r.pct_num >= 0 THEN "(chart up)" ELSE "(chart down)">>
                     \o lines.parts,
                   <<user_id, r.start_equity, r.pnl_open, r.now_equity,
                     r.pct_num, r.pct_den>> \o lines.nums),
              r.calls + c2.calls + lines.calls, FALSE, r.data)

\* ------------------------------------------------------------ state ----
VARIABLES
  TELEGRAM_BOT_TOKEN,      \* the bot credential, "" when the variable is unset
  TELEGRAM_CHAT_ID,        \* the allowed chat, NoChat when the variable is unset
  Env,                     \* what the outside world does in this run
  now_ts,                  \* the clock, int(time.time())
  btc_last_sent_ts,        \* time of the last alert sent, 0 for none
  btc_file,                \* btc_last_sent.txt, 0 when there is no file
  telegram_update_offset,  \* None or the offset the next getUpdates sends
  wallet_context,          \* user id -> context of the open /wallet menu
  jobs,                    \* the timers schedule_cleanup started, in order
  monthly_file,            \* monthly_snapshot.json: user id -> entry
  month,                   \* current_month_key(), as a count of months
  pc,                      \* where main() stands: "poll", "dispatch", "alert"
  batch,                   \* the updates of the for loop not yet handled
  pending,                 \* platform: updates delivered and not yet confirmed
  next_update_id,          \* platform: the update_id of the next update
  msg_chat,                \* platform: msg_chat[i] is the chat of message i
  dispatched,              \* update_ids the for loop has handled, in order
  last_poll,               \* how the latest telegram_get_updates ended
  last,                    \* what the latest handled update made the bot do
  call,                    \* a function of bot.py taken alone: its name and arguments
  ret                      \* what that function returned, NoRet before it is called

vars == <<TELEGRAM_BOT_TOKEN, TELEGRAM_CHAT_ID, Env, now_ts, btc_last_sent_ts, btc_file,
          telegram_update_offset, wallet_context, jobs, monthly_file, month, pc,
          batch, pending, next_update_id, msg_chat, dispatched, last_poll, last,
          call, ret>>

\* The configuration, which no step changes.
cfgVars == <<TELEGRAM_BOT_TOKEN, TELEGRAM_CHAT_ID, Env>>
\* The state of the alert service.
btcVars == <<btc_last_sent_ts, btc_file>>
\* A function taken alone, which no step of main() touches.
fnVars == <<call, ret>>

NoCall == [fn |-> "none"]
NoRet == [fn |-> "none"]

NoCtx == [cmd_msg_id |-> None, menu_msg_id |-> None, chat_id |-> NoChat]

NoUpd == [update_id |-> 0, kind |-> "none", chat_id |-> NoChat, user_id |-> 0,
          text |-> <<>>, data |-> "", message_id |-> None]

\* last: upd the update; sends the sendMessage calls made, each
\* [chat_id, text, res]; exch the number of exchange requests; answers the
\* answerCallbackQuery calls, each its text; raised whether the handler
\* raised into the except clause of the loop.
NoLast == [upd |-> NoUpd, sends |-> <<>>, exch |-> 0, answers |-> <<>>, raised |-> FALSE]

\* --------------------------------------------------------- platform ----
\* The updates the platform makes of shapes[k..], update ids from uid on;
\* a message update takes the next message id of msgs.
RECURSIVE MakeEvents(_, _, _, _)
MakeEvents(shapes, k, uid, msgs) ==
  IF k > Len(shapes) THEN [events |-> <<>>, msgs |-> msgs]
  ELSE LET sh == shapes[k]
           isMsg == sh.kind = "message"
           ev == [update_id |-> uid, kind |-> sh.kind, chat_id |-> sh.chat_id,
                  user_id |-> sh.user_id, text |-> sh.text, data |-> sh.data,
                  message_id |-> IF isMsg THEN Len(msgs) + 1 ELSE None]
           rest == MakeEvents(shapes, k + 1, uid + 1,
                              IF isMsg THEN Append(msgs, sh.chat_id) ELSE msgs)
       IN [events |-> <<ev>> \o rest.events, msgs |-> rest.msgs]

\* getUpdates(offset): the platform forgets the updates below offset and
\* answers with the ones it still holds.
Unconfirmed(offset) ==
  IF offset = None THEN pending
  ELSE SelectSeq(pending, LAMBDA u : u.update_id >= offset)

SendResults == {"ok", "fail", "raise"}

\* telegram_send(chat_id, text) when sendMessage ends as res, the platform
\* holding the messages msgs.
telegram_send(chat_id, text, res, msgs) ==
  [ok |-> res = "ok",
   message_id |-> IF res = "ok" THEN Len(msgs) + 1 ELSE None,
   raised |-> res = "raise",
   msgs |-> IF res = "ok" THEN Append(msgs, chat_id) ELSE msgs,
   log |-> [chat_id |-> chat_id, text |-> text, res |-> res]]

\* ------------------------------------------------------ polling step ----
\* A telegram_get_updates that takes the first update's id.
NewOffsetFirst(updates) == updates[1].update_id + 1

\* A telegram_get_updates that forgets the + 1.
NewOffsetSame(updates) == updates[Len(updates)].update_id

\* The assignment of telegram_get_updates for a non-empty result.
NewOffset(updates) == updates[Len(updates)].update_id + 1

\* telegram_get_updates ends without a batch: res is "raise" (requests or
\* r.json() raised), "conflict" (error_code 409) or "failed" (any other
\* ok = false answer).
PollNoBatch ==
  /\ pc = "poll"
  /\ \E res \in {"raise", "conflict", "failed"} : last_poll' = res
  /\ pc' = "alert"
  /\ batch' = <<>>
  /\ UNCHANGED <<cfgVars, fnVars, btcVars, now_ts, telegram_update_offset, wallet_context,
                 jobs, monthly_file, month, pending, next_update_id, msg_chat,
                 dispatched, last>>

\* telegram_get_updates gets an ok answer: the updates still unconfirmed and
\* the n new ones users caused meanwhile, in a run of at most maxUpdates
\* updates.
PollBatch(maxUpdates) ==
  /\ pc = "poll"
  /\ LET kept == Unconfirmed(telegram_update_offset)
         room == Min(Max(0, MaxBatch - Len(kept)), maxUpdates + 1 - next_update_id)
     IN \E n \in 0..room : \E shapes \in [1..n -> Env.inputs] :
          LET made == MakeEvents(shapes, 1, next_update_id, msg_chat)
              updates == kept \o made.events
          IN /\ pending' = updates
             /\ next_update_id' = next_update_id + n
             /\ msg_chat' = made.msgs
             /\ telegram_update_offset' =
                  IF updates # <<>> THEN NewOffset(updates) ELSE telegram_update_offset
             /\ batch' = updates
             /\ pc' = IF updates = <<>> THEN "alert" ELSE "dispatch"
             /\ last_poll' = IF updates = <<>> THEN "empty" ELSE "batch"
  /\ UNCHANGED <<cfgVars, fnVars, btcVars, now_ts, wallet_context, jobs, monthly_file,
                 month, dispatched, last>>

PollOk == PollBatch(MaxUpdates)

\* ------------------------------------------- answers of the exchange ----
Acc1 == [totalWalletBalance |-> 1000, totalEquity |-> 1020, totalMarginBalance |-> 1020,
         totalAvailableBalance |-> 700, totalPositionIM |-> 200,
         totalInitialMargin |-> 250, totalOrderIM |-> 50,
         totalMaintenanceMargin |-> 10]
Acc2 == [totalWalletBalance |-> 800, totalEquity |-> 790, totalMarginBalance |-> 0,
         totalAvailableBalance |-> 800, totalPositionIM |-> 0,
         totalInitialMargin |-> 0, totalOrderIM |-> 0,
         totalMaintenanceMargin |-> 0]
PosLong == [symbol |-> "BTCUSDT", side |-> "Buy", size |-> 2, unrealisedPnl |-> 30]
PosShort == [symbol |-> "ETHUSDT", side |-> "Sell", size |-> 1, unrealisedPnl |-> -10]
PosFlat == [symbol |-> "XRPUSDT", side |-> "", size |-> 0, unrealisedPnl |-> 0]

WFail == Resp(10003, "API key is invalid.", <<>>)
PFail == Resp(10001, "Illegal category", <<>>)
PNone == Resp(0, "OK", <<>>)

\* The answers of the exchange to the requests of one compute_trade_metrics:
\* an account with positions, an account after two failed requests, no
\* account, and a request that raises.
ScOk == [wallet |-> <<Resp(0, "OK", <<Acc1>>), WFail, WFail>>,
         pos |-> <<Resp(0, "OK", <<PosLong, PosFlat>>), PNone,
                   Resp(0, "OK", <<PosShort>>), PNone>>]
ScSecond == [wallet |-> <<WFail, Resp(0, "OK", <<Acc2>>), WFail>>,
             pos |-> <<PFail, PNone, PNone, PNone>>]
ScErr == [wallet |-> <<WFail, WFail, WFail>>, pos |-> <<PNone, PNone, PNone, PNone>>]
ScRaise == [wallet |-> <<WFail, RaiseResp, WFail>>, pos |-> <<PNone, PNone, PNone, PNone>>]
ScPosRaise == [wallet |-> <<Resp(0, "OK", <<Acc1>>), WFail, WFail>>,
               pos |-> <<PNone, RaiseResp, PNone, PNone>>]

\* The answers of the exchange to one ticker lookup (linear, inverse).
TickMark == <<Resp(0, "OK", <<[markPrice |-> 50000, lastPrice |-> 49990, bad |-> FALSE]>>),
              PNone>>

\* ---------------------------------------------------- dispatch steps ----
\* The update the for loop of main() handles next.
Upd == batch[1]

\* A chat limit that lets every chat through.
ChatLimitedNever(chat_id) == FALSE

\* The chat limit of main(): a chat is configured and this is another one.
ChatLimited(chat_id) == TELEGRAM_CHAT_ID # NoChat /\ chat_id # TELEGRAM_CHAT_ID

\* A schedule_cleanup that always takes the default delay.
JobDefaultDelay(chat_id, msg_ids, delay_seconds) ==
  [chat_id |-> chat_id, msg_ids |-> msg_ids, delay_seconds |-> AUTO_DELETE_SECONDS,
   fired |-> FALSE, attempted |-> 0]

\* schedule_cleanup(chat_id, msg_ids, delay_seconds): a started timer.
\* attempted counts the deleteMessage calls its _do has made.
Job(chat_id, msg_ids, delay_seconds) ==
  [chat_id |-> chat_id, msg_ids |-> msg_ids, delay_seconds |-> delay_seconds,
   fired |-> FALSE, attempted |-> 0]

\* The end of one pass of the for loop: the handler leaves the context map,
\* the timers, the platform's messages and the monthly file as given; a
\* handler that raised ends the for loop (except clause of main()).
Handled(ctx, js, msgs, file, sends, exch, answers, raised) ==
  /\ wallet_context' = ctx
  /\ jobs' = js
  /\ msg_chat' = msgs
  /\ monthly_file' = file
  /\ last' = [upd |-> Upd, sends |-> sends, exch |-> exch, answers |-> answers,
              raised |-> raised]
  /\ dispatched' = Append(dispatched, Upd.update_id)
  /\ batch' = IF raised THEN <<>> ELSE Tail(batch)
  /\ pc' = IF raised \/ Len(batch) = 1 THEN "alert" ELSE "dispatch"
  /\ UNCHANGED <<cfgVars, fnVars, btcVars, now_ts, telegram_update_offset, month,
                 pending, next_update_id, last_poll>>

\* A single-step command: send the text `out` holds and, when the send
\* succeeded, start the timer for the command and the reply.
ReplyAndCleanup(out, delay_seconds) ==
  IF out.raised
  THEN Handled(wallet_context, jobs, msg_chat, out.data, <<>>, out.calls, <<>>, TRUE)
  ELSE \E res \in SendResults :
         LET s == telegram_send(Upd.chat_id, out.text, res, msg_chat)
         IN Handled(wallet_context,
                    IF s.ok
                    THEN Append(jobs, Job(Upd.chat_id, <<Upd.message_id, s.message_id>>,
                                          delay_seconds))
                    ELSE jobs,
                    s.msgs, out.data, <<s.log>>, out.calls, <<>>, s.raised)

IsMessage == pc = "dispatch" /\ Upd.kind = "message"

\* A message from a chat other than the configured one.
MsgOtherChat ==
  /\ IsMessage
  /\ ChatLimited(Upd.chat_id)
  /\ Handled(wallet_context, jobs, msg_chat, monthly_file, <<>>, 0, <<>>, FALSE)

\* /commands and /comandos
CmdCommands ==
  /\ IsMessage
  /\ ~ChatLimited(Upd.chat_id)
  /\ IsCommands(Upd.text)
  /\ ReplyAndCleanup(Out(fn_commands, 0, FALSE, monthly_file), COMMANDS_DELETE_SECONDS)

\* /ids and /id
CmdIds ==
  /\ IsMessage
  /\ ~ChatLimited(Upd.chat_id)
  /\ ~IsCommands(Upd.text)
  /\ IsIds(Upd.text)
  /\ ReplyAndCleanup(Out(fn_ids(Upd), 0, FALSE, monthly_file), IDS_DELETE_SECONDS)

\* /pnl and /mensal
CmdPnl ==
  /\ IsMessage
  /\ ~ChatLimited(Upd.chat_id)
  /\ ~IsCommands(Upd.text)
  /\ ~IsIds(Upd.text)
  /\ IsPnl(Upd.text)
  /\ \E sc \in Env.exchange, sc2 \in Env.exchange, tick \in Env.ticks,
        saved \in Env.disk :
       ReplyAndCleanup(fn_pnl(Upd.user_id, sc, sc2, tick, month, monthly_file, saved),
                       PNL_DELETE_SECONDS)

\* A context map that keeps the context a user already holds.
StoreContextOnce(user_id, cmd_msg_id, menu_msg_id, chat_id) ==
  IF wallet_context[user_id] # NoCtx THEN wallet_context
  ELSE [wallet_context EXCEPT ![user_id] =
          [cmd_msg_id |-> cmd_msg_id, menu_msg_id |-> menu_msg_id, chat_id |-> chat_id]]

\* wallet_context[user_id] = {"cmd_msg_id": ..., "menu_msg_id": ..., "chat_id": ...}
StoreContext(user_id, cmd_msg_id, menu_msg_id, chat_id) ==
  [wallet_context EXCEPT ![user_id] =
     [cmd_msg_id |-> cmd_msg_id, menu_msg_id |-> menu_msg_id, chat_id |-> chat_id]]

\* /wallet and /saldo
CmdWallet ==
  /\ IsMessage
  /\ ~ChatLimited(Upd.chat_id)
  /\ ~IsCommands(Upd.text)
  /\ ~IsIds(Upd.text)
  /\ ~IsPnl(Upd.text)
  /\ IsWallet(Upd.text)
  /\ \E res \in SendResults :
       IF ~get_client_for_user(Upd.user_id)
       THEN LET s == telegram_send(Upd.chat_id, NotConfiguredText, res, msg_chat)
            IN Handled(wallet_context, jobs, s.msgs, monthly_file, <<s.log>>, 0, <<>>,
                       s.raised)
       ELSE LET s == telegram_send(Upd.chat_id, WalletMenuText, res, msg_chat)
            IN Handled(IF s.ok
                       THEN StoreContext(Upd.user_id, Upd.message_id, s.message_id,
                                         Upd.chat_id)
                       ELSE wallet_context,
                       jobs, s.msgs, monthly_file, <<s.log>>, 0, <<>>, s.raised)

\* A message that is none of the commands.
MsgNoCommand ==
  /\ IsMessage
  /\ ~ChatLimited(Upd.chat_id)
  /\ ~IsCommands(Upd.text)
  /\ ~IsIds(Upd.text)
  /\ ~IsPnl(Upd.text)
  /\ ~IsWallet(Upd.text)
  /\ Handled(wallet_context, jobs, msg_chat, monthly_file, <<>>, 0, <<>>, FALSE)

\* A callback handler whose last branch is the positions list.
CallbackOutNoElse(data, user_id, sc, file) ==
  IF data = "cap:free" THEN fn_free_balance(user_id, sc, file)
  ELSE IF data = "cap:trade" THEN fn_in_trade_cost(user_id, sc, file)
  ELSE fn_open_positions(user_id, sc, file)

\* The text the callback handler computes for callback_data `data`.
CallbackOut(data, user_id, sc, file) ==
  IF data = "pos:open" THEN fn_open_positions(user_id, sc, file)
  ELSE IF data = "cap:free" THEN fn_free_balance(user_id, sc, file)
  ELSE IF data = "cap:trade" THEN fn_in_trade_cost(user_id, sc, file)
  ELSE Out(Text(<<UNKNOWN_OPTION>>, <<>>), 0, FALSE, file)

\* The answerCallbackQuery calls of the callback handler for a press in chat
\* chat_id, each by its text.
CallbackAnswers(chat_id) ==
  IF ChatLimited(chat_id) THEN <<"", INVALID_CHAT>> ELSE <<"">>

\* A handler that forgets to pop the context.
PopContextKeep(user_id) == wallet_context

\* wallet_context.pop(user_id, None)
PopContext(user_id) == [wallet_context EXCEPT ![user_id] = NoCtx]

\* The callback handler.  ans: the n-th answerCallbackQuery raises (0: none
\* does).
CallbackQuery ==
  /\ pc = "dispatch"
  /\ Upd.kind = "callback_query"
  /\ LET answers == CallbackAnswers(Upd.chat_id)
     IN \E ans \in 0..Len(answers) :
        IF ans > 0
        THEN Handled(wallet_context, jobs, msg_chat, monthly_file, <<>>, 0,
                     SubSeq(answers, 1, ans), TRUE)
        ELSE IF ChatLimited(Upd.chat_id)
        THEN Handled(wallet_context, jobs, msg_chat, monthly_file, <<>>, 0, answers, FALSE)
        ELSE IF ~get_client_for_user(Upd.user_id)
        THEN \E res \in SendResults :
               LET s == telegram_send(Upd.chat_id, NotConfiguredText, res, msg_chat)
               IN Handled(wallet_context, jobs, s.msgs, monthly_file, <<s.log>>, 0,
                          answers, s.raised)
        ELSE \E sc \in Env.exchange :
               LET out == CallbackOut(Upd.data, Upd.user_id, sc, monthly_file)
               IN IF out.raised
                  THEN Handled(wallet_context, jobs, msg_chat, monthly_file, <<>>,
                               out.calls, answers, TRUE)
                  ELSE \E res \in SendResults :
                    LET s == telegram_send(Upd.chat_id, out.text, res, msg_chat)
                        ctx == wallet_context[Upd.user_id]
                        found == ctx # NoCtx
                    IN Handled(IF s.ok /\ found
                               THEN PopContext(Upd.user_id)
                               ELSE wallet_context,
                               IF s.ok /\ found
                               THEN Append(jobs, Job(ctx.chat_id,
                                      <<ctx.cmd_msg_id, ctx.menu_msg_id, s.message_id>>,
                                      AUTO_DELETE_SECONDS))
                               ELSE jobs,
                               s.msgs, monthly_file, <<s.log>>, out.calls, answers, s.raised)

\* ------------------------------------------------------------ alerts ----
BtcText == Text(<<"BTC">>, <<50000, 3>>)

\* A send_btc_update that never looks at the cooldown.
send_btc_update_no_cooldown(force, last_ts, got, res, saved) ==
  LET s == telegram_send(TELEGRAM_CHAT_ID, BtcText, res, msg_chat)
  IN IF TELEGRAM_CHAT_ID = NoChat \/ got # "ok"
     THEN [ts |-> last_ts, file |-> btc_file, msgs |-> msg_chat]
     ELSE [ts |-> IF s.ok THEN now_ts ELSE last_ts,
           file |-> IF s.ok /\ saved THEN now_ts ELSE btc_file,
           msgs |-> s.msgs]

\* send_btc_update(force) at clock value now_ts, the global btc_last_sent_ts
\* holding last_ts.  got is how get_btc_price ends ("ok", "none" or
\* "raise"), res how sendMessage ends, saved whether save_btc_last_sent
\* manages to write.
send_btc_update(force, last_ts, got, res, saved) ==
  LET due == \/ force
             \/ ~(last_ts # 0 /\ (now_ts - last_ts) < BTC_ALERT_SECONDS)
      s == telegram_send(TELEGRAM_CHAT_ID, BtcText, res, msg_chat)
  IN IF TELEGRAM_CHAT_ID = NoChat \/ ~due \/ got # "ok"
     THEN [ts |-> last_ts, file |-> btc_file, msgs |-> msg_chat]
     ELSE [ts |-> IF s.ok THEN now_ts ELSE last_ts,
           file |-> IF s.ok /\ saved THEN now_ts ELSE btc_file,
           msgs |-> s.msgs]

\* main() up to the loop: require_env, deleteWebhook (hook is how it ends),
\* load_btc_last_sent and the forced alert.  A missing token and a
\* deleteWebhook that raises end the process.
Startup ==
  /\ pc = "start"
  /\ \E hook \in {"ok", "raise"}, got \in Env.feed, res \in SendResults,
        saved \in Env.disk :
       IF TELEGRAM_BOT_TOKEN = "" \/ hook = "raise"
       THEN /\ pc' = "dead"
            /\ UNCHANGED <<btcVars, msg_chat>>
       ELSE LET loaded == btc_file
                b == send_btc_update(TRUE, loaded, got, res, saved)
            IN /\ pc' = "poll"
               /\ btc_last_sent_ts' = b.ts
               /\ btc_file' = b.file
               /\ msg_chat' = b.msgs
  /\ UNCHANGED <<cfgVars, fnVars, now_ts, telegram_update_offset, wallet_context, jobs,
                 monthly_file, month, batch, pending, next_update_id, dispatched,
                 last_poll, last>>

\* The end of one pass of the while loop: the periodic alert, then
\* time.sleep(1).
BtcAlert ==
  /\ pc = "alert"
  /\ now_ts < MaxClock
  /\ \E got \in Env.feed, res \in SendResults, saved \in Env.disk :
       LET b == send_btc_update(FALSE, btc_last_sent_ts, got, res, saved)
       IN /\ btc_last_sent_ts' = b.ts
          /\ btc_file' = b.file
          /\ msg_chat' = b.msgs
  /\ now_ts' = now_ts + 1
  /\ pc' = "poll"
  /\ UNCHANGED <<cfgVars, fnVars, telegram_update_offset, wallet_context, jobs, monthly_file,
                 month, batch, pending, next_update_id, dispatched, last_poll, last>>

\* ---------------------------------------------------- cleanup timers ----
\* The timer of job k fires: _do deletes the messages in order.  stop = 0:
\* no deleteMessage raises (each deletes or answers ok = false); stop = n:
\* the n-th raises, which ends the timer's thread.
FireJob ==
  /\ \E k \in 1..Len(jobs) :
       /\ ~jobs[k].fired
       /\ \E stop \in 0..Len(jobs[k].msg_ids) :
            jobs' = [jobs EXCEPT ![k].fired = TRUE,
                                 ![k].attempted =
                                    IF stop = 0 THEN Len(jobs[k].msg_ids) ELSE stop]
  /\ UNCHANGED <<cfgVars, fnVars, btcVars, now_ts, telegram_update_offset, wallet_context,
                 monthly_file, month, pc, batch, pending, next_update_id, msg_chat,
                 dispatched, last_poll, last>>

\* ------------------------------------------------------------- Init ----
\* The updates users cause in one run: messages with the given texts and
\* presses with the given callback data, by the given users in the given
\* chats.
Updates(chats, users, texts, tokens) ==
  [kind : {"message"}, chat_id : chats, user_id : users, text : texts, data : {""}]
  \cup
  [kind : {"callback_query"}, chat_id : chats, user_id : users, text : {<<>>},
   data : tokens]

\* One run's outside world: inputs the updates users cause, exchange the
\* answers to the requests of one compute_trade_metrics, ticks the answers
\* to a ticker lookup, disk whether a file write succeeds, feed how
\* get_btc_price ends.
World(inputs, exchange, ticks, disk, feed) ==
  [inputs |-> inputs, exchange |-> exchange, ticks |-> ticks, disk |-> disk,
   feed |-> feed]

\* Single-step commands without exchange data, by a configured user.
EnvCmds == World(Updates(Chats, {1}, {P_commands, P_ids}, {}),
                 {ScOk}, {TickMark}, {TRUE}, {"none"})
\* The PnL command and plain messages, by a configured user.
EnvPnl == World(Updates(Chats, {1}, {P_pnl, T_hello}, {}),
                {ScOk, ScErr, ScRaise}, {TickMark}, {TRUE}, {"none"})
\* The wallet menu and presses on it, by a configured user.
EnvMenu == World(Updates(Chats, {1}, {P_wallet}, {"pos:open", "old:menu"}),
                 {ScOk, ScErr, ScRaise}, {TickMark}, {TRUE}, {"none"})
\* The commands and presses that need credentials, by a user without.
EnvCreds == World(Updates({"A"}, {2}, {P_wallet, P_pnl}, {"cap:free", "old:menu"}),
                  {ScOk}, {TickMark}, {TRUE}, {"none"})
\* Presses of the capital buttons in the allowed chat, with the alert feed up.
EnvCaps == World(Updates({"A"}, {1}, {}, {"cap:free", "cap:trade"}),
                 {ScSecond, ScPosRaise}, {TickMark}, {TRUE, FALSE},
                 {"ok", "none", "raise"})

\* The module-level state of bot.py when main() is entered, with
\* monthly_snapshot.json holding one of files.
InitFiles(worlds, files) ==
  /\ TELEGRAM_BOT_TOKEN \in {"", "123:abc"}
  /\ TELEGRAM_CHAT_ID \in {NoChat, "A"}
  /\ Env \in worlds
  /\ now_ts = 1
  /\ btc_last_sent_ts = 0
  /\ btc_file = 0
  /\ telegram_update_offset = None
  /\ wallet_context = [u \in UserIds |-> NoCtx]
  /\ jobs = <<>>
  /\ monthly_file \in files
  /\ month = 1
  /\ pc = "start"
  /\ batch = <<>>
  /\ pending = <<>>
  /\ next_update_id = 1
  /\ msg_chat = <<>>
  /\ dispatched = <<>>
  /\ last_poll = "none"
  /\ last = NoLast
  /\ call = NoCall
  /\ ret = NoRet

\* The same without a monthly_snapshot.json.
InitWith(worlds) == InitFiles(worlds, {[u \in UserIds |-> NoEntry]})

Init == InitWith({EnvCmds, EnvPnl, EnvMenu, EnvCreds, EnvCaps})

Next ==
  \/ Startup
  \/ PollNoBatch
  \/ PollOk
  \/ MsgOtherChat
  \/ CmdCommands
  \/ CmdIds
  \/ CmdPnl
  \/ CmdWallet
  \/ MsgNoCommand
  \/ CallbackQuery
  \/ BtcAlert

\* The dispatcher thread: main().
Spec == Init /\ [][Next]_vars

\* The dispatcher thread and the timer threads.
NextTimers == Next \/ FireJob

SpecTimers == Init /\ [][NextTimers]_vars

\* ----------------------------------------------------------- routing ----
\* Command texts as users type them: aliases and canonical names in other
\* letter cases, with surrounding blanks and with an argument.
T_COMANDOS == <<"/","C","O","M","A","N","D","O","S">>
T_Id == <<" ","/","I","d">>
T_Mensal == <<"/","M","e","n","s","a","l"," ","x">>
T_SALDO == <<"/","S","A","L","D","O","\n">>

\* Every command and every alias, by a configured user in the allowed chat.
EnvAlias == World(Updates({"A"}, {1},
                          {P_commands, T_COMANDOS, P_ids, T_Id, P_pnl, T_Mensal,
                           P_wallet, T_SALDO, T_hello}, {}),
                  {ScOk}, {TickMark}, {TRUE}, {"none"})

\* The steps main() can take on message updates of the allowed chat.
NextRouting ==
  \/ Startup
  \/ PollNoBatch
  \/ PollOk
  \/ CmdCommands
  \/ CmdIds
  \/ CmdPnl
  \/ CmdWallet
  \/ MsgNoCommand
  \/ BtcAlert

SpecRouting == InitWith({EnvAlias}) /\ [][NextRouting]_vars

\* ----------------------------------------------------------- months ----
\* The calendar passes into the next month: current_month_key() changes.
NewMonth ==
  /\ pc \in {"poll", "dispatch"}
  /\ month < MaxMonth
  /\ month' = month + 1
  /\ UNCHANGED <<cfgVars, fnVars, btcVars, now_ts, telegram_update_offset, wallet_context,
                 jobs, monthly_file, pc, batch, pending, next_update_id, msg_chat,
                 dispatched, last_poll, last>>

\* An entry an earlier version of the bot wrote in the first month: it has
\* "start_equity" and no "start_wallet".
OldEntry == [month |-> 1, has_sw |-> FALSE, start_wallet |-> 0,
             has_se |-> TRUE, start_equity |-> 900]

\* PnL queries by a configured user while the wallet value changes and the
\* file may refuse a write.
EnvMonths == World(Updates({"A"}, {1}, {P_pnl}, {}),
                   {ScOk, ScSecond}, {TickMark}, {TRUE, FALSE}, {"none"})

InitMonths ==
  InitFiles({EnvMonths},
            {[u \in UserIds |-> NoEntry], [u \in UserIds |-> OldEntry]})

NextMonths ==
  \/ Startup
  \/ PollNoBatch
  \/ PollOk
  \/ CmdPnl
  \/ BtcAlert
  \/ NewMonth

SpecMonths == InitMonths /\ [][NextMonths]_vars

\* ------------------------------------------- functions taken alone ----
\* The amounts a field of a reported account takes.
Amounts == {0 - MaxAmount, -1, 0, 1, MaxAmount}

\* Accounts that differ in the fields the free capital is computed from, and
\* accounts that differ in the fields the assets and the used margin are
\* computed from.
MarginAccounts ==
  {[NoAcc EXCEPT !.totalWalletBalance = w, !.totalPositionIM = p,
                 !.totalInitialMargin = i, !.totalOrderIM = o,
                 !.totalMaintenanceMargin = m] :
     w \in Amounts, p \in Amounts, i \in Amounts, o \in Amounts, m \in Amounts}
AssetAccounts ==
  {[NoAcc EXCEPT !.totalWalletBalance = w, !.totalEquity = e,
                 !.totalMarginBalance = b, !.totalAvailableBalance = a] :
     w \in Amounts, e \in Amounts, b \in Amounts, a \in Amounts}

\* A position at a loss and one at a gain of the largest amount.
PosLoss == [symbol |-> "BTCUSDT", side |-> "Buy", size |-> 1,
            unrealisedPnl |-> 0 - MaxAmount]
PosGain == [symbol |-> "ETHUSDT", side |-> "Sell", size |-> 1,
            unrealisedPnl |-> MaxAmount]

\* Answers to the four position requests of one open_positions_all: none
\* open, one at a loss, one at a gain after a failed request.
PosCases == {<<PNone, PNone, PNone, PNone>>,
             <<Resp(0, "OK", <<PosLoss>>), PNone, PNone, PNone>>,
             <<PFail, Resp(0, "OK", <<PosGain, PosFlat>>), PNone, PNone>>}

\* What the exchange may answer to one wallet request and to one position
\* request.
WEmpty == Resp(0, "OK", <<>>)
WFail2 == Resp(10016, "Service error.", <<>>)
WalletAnswers == {Resp(0, "OK", <<Acc1>>), Resp(0, "OK", <<Acc2>>), WEmpty, WFail,
                  WFail2, RaiseResp}
PFail2 == Resp(10002, "Request expired.", <<>>)
PosAnswers == {PNone, Resp(0, "OK", <<PosLong, PosFlat>>), Resp(0, "OK", <<PosShort>>),
               PFail, PFail2, RaiseResp}

\* The wallet answers of the reply functions: an account at once, an account
\* after a failure, and no account at all.
WalletCases == {<<Resp(0, "OK", <<Acc1>>), WFail, WFail>>,
                <<WFail, Resp(0, "OK", <<Acc2>>), WFail>>,
                <<WFail, WFail2, WFail>>,
                <<WFail2, WFail, WFail2>>}

ReplyFns == {"fn_free_balance", "fn_in_trade_cost", "fn_open_positions", "fn_pnl"}

\* The calls the functions are taken alone with.
Calls ==
  [fn : {"wallet_best"}, resps : [1..3 -> WalletAnswers]]
  \cup [fn : {"open_positions_all"}, resps : [1..4 -> PosAnswers]]
  \cup [fn : {"compute_trade_metrics"},
        sc : {[wallet |-> <<Resp(0, "OK", <<acc>>), WFail, WFail>>, pos |-> ps] :
                acc \in MarginAccounts \cup AssetAccounts, ps \in PosCases}]
  \cup [fn : ReplyFns, user_id : {1},
        sc : {[wallet |-> <<Resp(0, "OK", <<acc>>), WFail, WFail>>, pos |-> ps] :
                acc \in AssetAccounts, ps \in PosCases}]
  \cup [fn : ReplyFns, user_id : {1},
        sc : {[wallet |-> w, pos |-> ps] :
                w \in WalletCases, ps \in [1..4 -> {PNone, PFail, PFail2}]}]

\* client.wallet_best()
CallWalletBest ==
  /\ call.fn = "wallet_best" /\ ret = NoRet
  /\ ret' = [fn |-> call.fn, out |-> wallet_best(call.resps)]
  /\ UNCHANGED <<cfgVars, call, btcVars, now_ts, telegram_update_offset, wallet_context,
                 jobs, monthly_file, month, pc, batch, pending, next_update_id,
                 msg_chat, dispatched, last_poll, last>>

\* client.open_positions_all()
CallOpenPositionsAll ==
  /\ call.fn = "open_positions_all" /\ ret = NoRet
  /\ ret' = [fn |-> call.fn, out |-> open_positions_all(call.resps)]
  /\ UNCHANGED <<cfgVars, call, btcVars, now_ts, telegram_update_offset, wallet_context,
                 jobs, monthly_file, month, pc, batch, pending, next_update_id,
                 msg_chat, dispatched, last_poll, last>>

\* compute_trade_metrics(client)
CallComputeTradeMetrics ==
  /\ call.fn = "compute_trade_metrics" /\ ret = NoRet
  /\ ret' = [fn |-> call.fn, out |-> compute_trade_metrics(call.sc)]
  /\ UNCHANGED <<cfgVars, call, btcVars, now_ts, telegram_update_offset, wallet_context,
                 jobs, monthly_file, month, pc, batch, pending, next_update_id,
                 msg_chat, dispatched, last_poll, last>>

\* fn_free_balance(user_id), fn_in_trade_cost(user_id),
\* fn_open_positions(user_id) and fn_pnl(user_id); the file is written as
\* fn_pnl leaves it.
CallReplyFn ==
  /\ call.fn \in ReplyFns /\ ret = NoRet
  /\ ret' = [fn |-> call.fn,
             out |-> CASE call.fn = "fn_free_balance" ->
                            fn_free_balance(call.user_id, call.sc, monthly_file)
                       [] call.fn = "fn_in_trade_cost" ->
                            fn_in_trade_cost(call.user_id, call.sc, monthly_file)
                       [] call.fn = "fn_open_positions" ->
                            fn_open_positions(call.user_id, call.sc, monthly_file)
                       [] call.fn = "fn_pnl" ->
                            fn_pnl(call.user_id, call.sc, call.sc, TickMark, month,
                                   monthly_file, TRUE)]
  /\ monthly_file' = ret'.out.data
  /\ UNCHANGED <<cfgVars, call, btcVars, now_ts, telegram_update_offset, wallet_context,
                 jobs, month, pc, batch, pending, next_update_id,
                 msg_chat, dispatched, last_poll, last>>

\* A configured bot that is not running main(), about to make one of calls.
InitCalls(calls) ==
  /\ TELEGRAM_BOT_TOKEN = "123:abc"
  /\ TELEGRAM_CHAT_ID = NoChat
  /\ Env = EnvCmds
  /\ now_ts = 1
  /\ btc_last_sent_ts = 0
  /\ btc_file = 0
  /\ telegram_update_offset = None
  /\ wallet_context = [u \in UserIds |-> NoCtx]
  /\ jobs = <<>>
  /\ monthly_file = [u \in UserIds |-> NoEntry]
  /\ month = 1
  /\ pc = "call"
  /\ batch = <<>>
  /\ pending = <<>>
  /\ next_update_id = 1
  /\ msg_chat = <<>>
  /\ dispatched = <<>>
  /\ last_poll = "none"
  /\ last = NoLast
  /\ call \in calls
  /\ ret = NoRet

InitFn == InitCalls(Calls)

NextFn ==
  \/ CallWalletBest
  \/ CallOpenPositionsAll
  \/ CallComputeTradeMetrics
  \/ CallReplyFn

SpecFn == InitFn /\ [][NextFn]_vars

\* ----------------------------------------------------------- cleanup ----
\* The dispatcher on the command list and the identity lookup, whose replies
\* start cleanup timers, and the timer threads.
NextCleanup ==
  \/ Startup
  \/ PollNoBatch
  \/ PollOk
  \/ MsgOtherChat
  \/ CmdCommands
  \/ CmdIds
  \/ BtcAlert
  \/ FireJob

SpecCleanup == InitWith({EnvCmds}) /\ [][NextCleanup]_vars

\* ------------------------------------------------------- wallet menu ----
\* The wallet menu, presses on it and the identity lookup, by a configured
\* user in the allowed chat.
EnvWallet == World(Updates({"A"}, {1}, {P_wallet, P_ids}, {"cap:free"}),
                   {ScOk}, {TickMark}, {TRUE}, {"none"})

PollMenu == PollBatch(MaxMenuUpdates)

\* The dispatcher on the wallet menu and the identity lookup, every poll
\* answered, and the timer threads.
NextMenu ==
  \/ Startup
  \/ PollMenu
  \/ CmdIds
  \/ CmdWallet
  \/ CallbackQuery
  \/ BtcAlert
  \/ FireJob

SpecMenu == InitWith({EnvWallet}) /\ [][NextMenu]_vars

\* ============================================================ claims ====
\* Steps and states the claims speak about.

\* This step is one pass of the for loop: it handles the update Upd.
DispatchStep == pc = "dispatch" /\ dispatched' # dispatched

\* This step is one call of telegram_get_updates.
PollStep == pc = "poll" /\ pc' # "poll"

\* This step sent a reply and the send succeeded.
RepliedOk == Len(last'.sends) = 1 /\ last'.sends[1].res = "ok"

\* An allowed chat is configured and chat_id is another chat.
FromOtherChat(chat_id) == TELEGRAM_CHAT_ID # NoChat /\ chat_id # TELEGRAM_CHAT_ID

\* The highest update_id of a batch.
Highest(updates) ==
  CHOOSE n \in {updates[i].update_id : i \in 1..Len(updates)} :
    \A i \in 1..Len(updates) : updates[i].update_id <= n

\* A text is the "not configured" message: the fixed sentence behind a mark.
IsNotConfigured(text) ==
  /\ Len(text.parts) = 2
  /\ text.parts[1] \in {NO_ENTRY, CROSS}
  /\ text.parts[2] = NOT_CONFIGURED
  /\ text.nums = <<>>

\* The handler of update u got as far as its reply (no answerCallbackQuery
\* and no exchange request raised before it).
ReachedReply(l) == ~(l.raised /\ l.sends = <<>>)

\* ---- C1 ----------------------------------------------------------------
\* C1: whenever the loop is dispatching a batch whose highest update_id is N,
\* the offset is already N + 1, and this holds while no update of the batch
\* has been handled yet: the offset is set before the first dispatch.
C1_OffsetBeforeDispatch ==
  pc = "dispatch" =>
    /\ telegram_update_offset = Highest(pending) + 1
    /\ batch = pending =>
         \A i \in 1..Len(dispatched) : dispatched[i] < pending[1].update_id

\* A batch of two is about to be dispatched and none of it has been handled.
C1_Witness ==
  /\ pc = "dispatch"
  /\ Len(batch) = 2
  /\ batch = pending
  /\ dispatched = <<>>
  /\ telegram_update_offset = 3

\* ---- C2 ----------------------------------------------------------------
\* C2: the offset never decreases; a poll that returns a non-empty batch
\* raises it strictly, and a poll that ends empty, failed, with a conflict
\* or by raising leaves it unchanged (and yields no batch).
C2_OffsetMonotonic ==
  [][ /\ telegram_update_offset' >= telegram_update_offset
      /\ (PollStep /\ last_poll' = "batch")
           => telegram_update_offset' > telegram_update_offset
      /\ (PollStep /\ last_poll' \in {"empty", "failed", "conflict", "raise"})
           => /\ telegram_update_offset' = telegram_update_offset
              /\ batch' = <<>>
              /\ pc' = "alert" ]_vars

\* A conflict answer after a batch had moved the offset to 2.
C2_Witness ==
  /\ last_poll = "conflict"
  /\ telegram_update_offset = 2
  /\ dispatched = <<1>>

\* ---- C3 ----------------------------------------------------------------
\* C3: the update_ids handled by the for loop are strictly increasing: no
\* update is handled twice and updates are handled in the order of their
\* batches and, within a batch, in arrival order, also after a handler
\* raised.
C3_AtMostOnceInOrder ==
  \A i, j \in 1..Len(dispatched) : i < j => dispatched[i] < dispatched[j]

\* The first update of a batch of two raised, the loop polled again and the
\* platform redelivered nothing.
C3_Witness ==
  /\ last.raised
  /\ last.upd.update_id = 1
  /\ next_update_id = 3
  /\ dispatched = <<1>>
  /\ last_poll = "empty"

\* ---- C4 ----------------------------------------------------------------
\* C4: with an allowed chat configured, handling an update of another chat
\* sends no message, makes no exchange request, leaves every context as it
\* is and starts no cleanup timer.
C4_OtherChatDropped ==
  [][ (DispatchStep /\ FromOtherChat(Upd.chat_id))
        => /\ last'.sends = <<>>
           /\ last'.exch = 0
           /\ msg_chat' = msg_chat
           /\ wallet_context' = wallet_context
           /\ jobs' = jobs
           /\ monthly_file' = monthly_file ]_vars

\* A press from another chat by a user whose wallet menu is open.
C4_Witness ==
  /\ last.upd.kind = "callback_query"
  /\ FromOtherChat(last.upd.chat_id)
  /\ wallet_context[last.upd.user_id] # NoCtx
  /\ ~last.raised

\* ---- C5 ----------------------------------------------------------------
\* C5: an identity-lookup message is answered with the identifiers reply
\* whatever chat it comes from.
C5_IdsAlwaysAnswered ==
  (last.upd.kind = "message" /\ ~IsCommands(last.upd.text) /\ IsIds(last.upd.text))
    => /\ Len(last.sends) = 1
       /\ last.sends[1].chat_id = last.upd.chat_id
       /\ last.sends[1].text = fn_ids(last.upd)

\* ---- C6 ----------------------------------------------------------------
\* The update needs exchange credentials: the wallet menu, the PnL command
\* or a press.
NeedsCredentials(u) ==
  \/ u.kind = "callback_query"
  \/ /\ u.kind = "message"
     /\ ~IsCommands(u.text)
     /\ ~IsIds(u.text)
     /\ IsPnl(u.text) \/ IsWallet(u.text)

\* C6: handling an update that needs credentials, from a user without, makes
\* no exchange request, records no context and writes no baseline; and the
\* reply it sends is the "not configured" message.
C6_NotConfigured ==
  [][ (/\ DispatchStep
       /\ ~FromOtherChat(Upd.chat_id)
       /\ NeedsCredentials(Upd)
       /\ Upd.user_id \notin USERS)
        => /\ last'.exch = 0
           /\ wallet_context' = wallet_context
           /\ monthly_file' = monthly_file
           /\ ReachedReply(last')
                => /\ Len(last'.sends) = 1
                   /\ last'.sends[1].chat_id = Upd.chat_id
                   /\ IsNotConfigured(last'.sends[1].text) ]_vars

\* A user without credentials asked for the PnL and got the reply.
C6_Witness ==
  /\ last.upd.kind = "message"
  /\ IsPnl(last.upd.text)
  /\ last.upd.user_id \notin USERS
  /\ Len(last.sends) = 1
  /\ last.sends[1].res = "ok"
  /\ IsNotConfigured(last.sends[1].text)

\* ---- C7 ----------------------------------------------------------------
\* C7: handling a press starts a cleanup timer exactly when its reply was
\* sent and the user has a context; the timer is for the context's chat and
\* holds the context's command message, its menu message and the new reply,
\* and the same step removes the context; otherwise the timers and the
\* contexts stay as they are.
C7_CallbackCleanup ==
  [][ (DispatchStep /\ Upd.kind = "callback_query")
        => LET ctx == wallet_context[Upd.user_id]
           IN IF RepliedOk /\ ctx # NoCtx
              THEN /\ Len(jobs') = Len(jobs) + 1
                   /\ SubSeq(jobs', 1, Len(jobs)) = jobs
                   /\ jobs'[Len(jobs')].msg_ids =
                        <<ctx.cmd_msg_id, ctx.menu_msg_id, Len(msg_chat')>>
                   /\ jobs'[Len(jobs')].chat_id = ctx.chat_id
                   /\ ~jobs'[Len(jobs')].fired
                   /\ wallet_context' = [wallet_context EXCEPT ![Upd.user_id] = NoCtx]
              ELSE /\ jobs' = jobs
                   /\ wallet_context' = wallet_context ]_vars

\* A press consumed the context of the wallet menu: the timer holds three
\* messages and the context is gone.
C7_Witness ==
  /\ last.upd.kind = "callback_query"
  /\ Len(jobs) = 1
  /\ jobs[1].msg_ids = <<1, 2, 3>>
  /\ wallet_context[last.upd.user_id] = NoCtx

\* ---- C8 ----------------------------------------------------------------
\* The delay of a single-step command's cleanup.
SingleStepDelay(text) ==
  IF IsCommands(text) THEN 8 ELSE IF IsIds(text) THEN 5 ELSE 7

\* The update is a single-step command: command list, identity lookup, PnL.
IsSingleStep(u) ==
  u.kind = "message" /\ (IsCommands(u.text) \/ IsIds(u.text) \/ IsPnl(u.text))

\* C8: handling a single-step command whose reply was sent starts exactly one
\* timer, for the command message and the reply, with the command's delay
\* (8, 5 and 7 seconds); without a sent reply it starts none; and it leaves
\* every context as it is.
C8_SingleStepCleanup ==
  [][ (DispatchStep /\ ~FromOtherChat(Upd.chat_id) /\ IsSingleStep(Upd))
        => /\ wallet_context' = wallet_context
           /\ IF RepliedOk
              THEN jobs' = Append(jobs,
                     [chat_id |-> Upd.chat_id,
                      msg_ids |-> <<Upd.message_id, Len(msg_chat')>>,
                      delay_seconds |-> SingleStepDelay(Upd.text),
                      fired |-> FALSE, attempted |-> 0])
              ELSE jobs' = jobs ]_vars

\* The PnL command was answered and its timer, of 7 seconds, started.
C8_Witness ==
  /\ last.upd.kind = "message"
  /\ IsPnl(last.upd.text)
  /\ Len(last.sends) = 1
  /\ last.sends[1].res = "ok"
  /\ jobs # <<>>
  /\ jobs[Len(jobs)].delay_seconds = 7
  /\ jobs[Len(jobs)].msg_ids[1] = last.upd.message_id

\* ---- C9 ----------------------------------------------------------------
\* C9 as stated: a press with an unrecognized token gets the "unknown
\* option" reply and causes no exchange request, whoever the user is.
C9_UnknownOptionForAll ==
  (/\ last.upd.kind = "callback_query"
   /\ last.upd.data \notin KnownTokens
   /\ ~FromOtherChat(last.upd.chat_id)
   /\ ReachedReply(last))
    => /\ Len(last.sends) = 1
       /\ last.sends[1].text = Text(<<UNKNOWN_OPTION>>, <<>>)
       /\ last.exch = 0

\* C9 amended: a press with an unrecognized token causes no exchange request
\* for any user; it gets the "unknown option" reply when the user has
\* credentials, and the "not configured" reply when the user has none.
C9_UnknownOption ==
  (/\ last.upd.kind = "callback_query"
   /\ last.upd.data \notin KnownTokens)
    => /\ last.exch = 0
       /\ (~FromOtherChat(last.upd.chat_id) /\ ReachedReply(last))
            => /\ Len(last.sends) = 1
               /\ last.sends[1].chat_id = last.upd.chat_id
               /\ last.sends[1].text =
                    IF last.upd.user_id \in USERS
                    THEN Text(<<UNKNOWN_OPTION>>, <<>>)
                    ELSE Text(<<NO_ENTRY, NOT_CONFIGURED>>, <<>>)

\* A user with credentials pressed a button of a foreign menu and was told.
C9_Witness ==
  /\ last.upd.kind = "callback_query"
  /\ last.upd.data \notin KnownTokens
  /\ last.upd.user_id \in USERS
  /\ Len(last.sends) = 1
  /\ last.sends[1].res = "ok"
  /\ last.sends[1].text = Text(<<UNKNOWN_OPTION>>, <<>>)

\* ---- C10 ---------------------------------------------------------------
\* C10: every press is acknowledged by exactly one answerCallbackQuery call.
C10_AnsweredOnce ==
  last.upd.kind = "callback_query" => Len(last.answers) = 1

\* ---- C11 ---------------------------------------------------------------
\* The reply this step sent had the text the command gives (textOk), and
\* the step did the single-step cleanup with the command's delay.
SingleStepRan(textOk, delay) ==
  /\ Len(last'.sends) = 1
  /\ last'.sends[1].chat_id = Upd.chat_id
  /\ textOk
  /\ wallet_context' = wallet_context
  /\ jobs' = IF last'.sends[1].res = "ok"
             THEN Append(jobs, [chat_id |-> Upd.chat_id,
                                msg_ids |-> <<Upd.message_id, Len(msg_chat) + 1>>,
                                delay_seconds |-> delay,
                                fired |-> FALSE, attempted |-> 0])
             ELSE jobs

\* This step ran the wallet-menu handler for a user with credentials.
WalletMenuRan ==
  /\ Len(last'.sends) = 1
  /\ last'.sends[1].chat_id = Upd.chat_id
  /\ last'.sends[1].text = WalletMenuText
  /\ jobs' = jobs
  /\ wallet_context' =
       IF last'.sends[1].res = "ok"
       THEN [wallet_context EXCEPT ![Upd.user_id] =
               [cmd_msg_id |-> Upd.message_id, menu_msg_id |-> Len(msg_chat) + 1,
                chat_id |-> Upd.chat_id]]
       ELSE wallet_context

\* C11: a message runs at most one command handler, and a legacy alias, in
\* any letter case, runs the handler of its canonical command with the same
\* reply and the same cleanup: /comandos as /commands, /id as /ids, /mensal
\* as /pnl, /saldo as /wallet.
C11_AliasRouting ==
  [][(DispatchStep /\ Upd.kind = "message" /\ ~FromOtherChat(Upd.chat_id)
        /\ Upd.user_id \in USERS)
       => /\ Len(last'.sends) <= 1
          /\ Len(jobs') <= Len(jobs) + 1
          /\ Upd.text \in {P_commands, T_COMANDOS}
               => SingleStepRan(last'.sends[1].text = fn_commands, 8)
          /\ Upd.text \in {P_ids, T_Id}
               => SingleStepRan(last'.sends[1].text = fn_ids(Upd), 5)
          /\ Upd.text \in {P_pnl, T_Mensal}
               => SingleStepRan(last'.sends[1].text.parts[1] \in {"MTD PnL", CROSS}, 7)
          /\ Upd.text \in {P_wallet, T_SALDO} => WalletMenuRan
          /\ Upd.text = T_hello => last'.sends = <<>> /\ jobs' = jobs]_vars

\* The alias /SALDO opened the wallet menu, right after /wallet did.
C11_Witness ==
  /\ last.upd.text = T_SALDO
  /\ Len(last.sends) = 1
  /\ last.sends[1].res = "ok"
  /\ last.sends[1].text = WalletMenuText
  /\ wallet_context[last.upd.user_id].cmd_msg_id = last.upd.message_id
  /\ Len(dispatched) = 2

\* ---- C12 ---------------------------------------------------------------
\* A reply is the PnL text (not an error line).
IsPnlText(l) ==
  /\ Len(l.sends) = 1
  /\ l.sends[1].text.parts # <<>>
  /\ l.sends[1].text.parts[1] = "MTD PnL"

\* The start value and the month key a PnL reply shows.
ShownStart(l) == l.sends[1].text.nums[2]
ShownMonth(l) == l.sends[1].text.parts[3]

\* The start value on file in an entry.
StartOnFile(e) == IF e.has_sw THEN e.start_wallet ELSE e.start_equity

MetricsReturned ==
  /\ ret.fn = "compute_trade_metrics"
  /\ ~ret.out.raised
  /\ ret.out.err = <<>>

\* The account the exchange reported to that call.
ReportedAccount == call.sc.wallet[1].list[1]

\* The free capital before the floor: the wallet less the three margins, the
\* position margin taken from the generic initial margin when it is not
\* positive.
RawFree(acc) ==
  acc.totalWalletBalance
    - (IF acc.totalPositionIM <= 0 THEN acc.totalInitialMargin ELSE acc.totalPositionIM)
    - acc.totalOrderIM - acc.totalMaintenanceMargin

\* C13: whatever the sign of the reported fields, capital_free_real and used
\* are >= 0, and capital_free_real is max(0, wallet - position_im - order_im -
\* maintenance) with the initial margin standing in for a non-positive
\* position margin.
C13_FreeAndUsedClamped ==
  MetricsReturned
    => /\ ret.out.m.capital_free_real >= 0
       /\ ret.out.m.used >= 0
       /\ ret.out.m.capital_free_real =
            IF RawFree(ReportedAccount) > 0 THEN RawFree(ReportedAccount) ELSE 0

\* An account whose margins exceed the wallet, with the initial margin
\* standing in for a missing position margin: the free capital is 0.
C13_Witness ==
  /\ MetricsReturned
  /\ ReportedAccount.totalPositionIM <= 0
  /\ ReportedAccount.totalInitialMargin > 0
  /\ RawFree(ReportedAccount) < 0
  /\ ret.out.m.capital_free_real = 0

\* ---- C14 ---------------------------------------------------------------
\* A reply function was called and returned the text of its figures (not an
\* error line).
FiguresReturned(fn, title) ==
  /\ ret.fn = fn
  /\ ~ret.out.raised
  /\ ret.out.text.parts # <<>>
  /\ ret.out.text.parts[1] = title

\* C14: every monetary figure a reply shows is >= 0, the open PnL and the
\* percentage excepted: available, buffer, wallet and assets of the free
\* balance; cost basis, equity, available margin and used of the in-trade
\* cost; start value and equity of the PnL.
C14_FiguresNonNegative ==
  /\ FiguresReturned("fn_free_balance", "Free Balance")
       => \A k \in 1..4 : ret.out.text.nums[k] >= 0
  /\ FiguresReturned("fn_in_trade_cost", "In-Trade (Cost)")
       => \A k \in 1..4 : ret.out.text.nums[k] >= 0
  /\ FiguresReturned("fn_pnl", "MTD PnL")
       => ret.out.text.nums[2] >= 0 /\ ret.out.text.nums[4] >= 0

\* ---- C15 ---------------------------------------------------------------
\* The account types whose wallet answer is successful and non-empty.
UsableAccounts(resps) ==
  {i \in 1..Len(resps) :
     ~resps[i].raise /\ resps[i].retCode = 0 /\ resps[i].list # <<>>}

\* C15: wallet_best returns the first answer, in the order UNIFIED,
\* CONTRACT, SPOT, that is successful and non-empty; an earlier account type
\* that failed or was empty does not prevent it, and an error is returned
\* only when no account type has a usable answer.
C15_FirstUsableAccount ==
  (ret.fn = "wallet_best" /\ (\A i \in 1..3 : ~call.resps[i].raise))
    => LET usable == UsableAccounts(call.resps)
       IN  IF usable = {}
           THEN ret.out.err # <<>>
           ELSE LET first == CHOOSE i \in usable : \A j \in usable : i <= j
                IN  /\ ret.out.err = <<>>
                    /\ ret.out.acc = call.resps[first].list[1]
                    /\ ret.out.acct = AccountTypes[first]

\* ---- C16 ---------------------------------------------------------------
\* The positions with size > 0 of the answers i..4 that succeeded, in the
\* order of the requests.
RECURSIVE SucceededOpen(_, _)
SucceededOpen(resps, i) ==
  IF i > Len(resps) THEN <<>>
  ELSE (IF resps[i].retCode = 0
        THEN SelectSeq([k \in 1..Len(resps[i].list) |->
                          [symbol |-> resps[i].list[k].symbol,
                           side |-> resps[i].list[k].side,
                           size |-> resps[i].list[k].size,
                           upl |-> resps[i].list[k].unrealisedPnl]],
                       LAMBDA p : p.size > 0)
        ELSE <<>>) \o SucceededOpen(resps, i + 1)

\* open_positions_all was called with answers none of which is a transport
\* failure, and returned.
PositionsReturned ==
  /\ ret.fn = "open_positions_all"
  /\ \A i \in 1..4 : ~call.resps[i].raise

\* C16: open_positions_all makes all four requests whatever failed before,
\* returns the positions of size > 0 of every request that succeeded, and
\* returns an error exactly when that aggregate is empty and some request
\* failed; four successful empty answers give an empty list and no error.
C16_AllPairsAggregated ==
  PositionsReturned =>
    LET agg == SucceededOpen(call.resps, 1)
        failed == \E i \in 1..4 : call.resps[i].retCode # 0
    IN  /\ ret.out.calls = 4
        /\ ~ret.out.raised
        /\ ret.out.none <=> (agg = <<>> /\ failed)
        /\ (ret.out.err # <<>>) <=> (agg = <<>> /\ failed)
        /\ ~ret.out.none => ret.out.positions = agg

\* A request failed, a later one succeeded with an open position and a
\* closed one, and the open one was returned without an error.
C16_Witness ==
  /\ PositionsReturned
  /\ call.resps[1].retCode # 0
  /\ \E i \in 2..4 : /\ call.resps[i].retCode = 0
                     /\ \E k \in 1..Len(call.resps[i].list) :
                          call.resps[i].list[k].size = 0
  /\ ret.out.positions # <<>>
  /\ ~ret.out.none

\* ---- C17 ---------------------------------------------------------------
\* Every request of resps was answered with a non-zero result code.
AllRefused(resps) ==
  \A i \in 1..Len(resps) : ~resps[i].raise /\ resps[i].retCode # 0

\* The reply is an error line carrying the message of one of the answers.
IsErrorLineOf(text, resps) ==
  /\ text.parts # <<>>
  /\ text.parts[1] = CROSS
  /\ \E i \in 1..Len(resps) : \E k \in 1..Len(text.parts) :
       text.parts[k] = resps[i].retMsg

\* C17: when the exchange refuses (non-zero result code) every request for
\* the data a reply is made of, the wallet balance of any reply or the
\* position list of the open-positions reply, the reply is an error line
\* with the exchange's message, and no request is made again.
C17_ExchangeErrorSurfaced ==
  /\ (ret.fn \in ReplyFns /\ AllRefused(call.sc.wallet))
       => /\ IsErrorLineOf(ret.out.text, call.sc.wallet)
          /\ ret.out.calls = Len(call.sc.wallet)
  /\ (/\ ret.fn = "fn_open_positions"
      /\ ~ret.out.raised
      /\ ~AllRefused(call.sc.wallet)
      /\ AllRefused(call.sc.pos))
       => /\ IsErrorLineOf(ret.out.text, call.sc.pos)
          /\ ret.out.calls <= Len(call.sc.wallet) + Len(call.sc.pos)

\* ---- C18 ---------------------------------------------------------------
\* The step is the forced alert of the startup or the alert at the end of a
\* pass of the loop, and it delivered its message.
AlertSent ==
  /\ pc \in {"start", "alert"}
  /\ Len(msg_chat') = Len(msg_chat) + 1

\* C18: the alert of the loop is sent only with a broadcast target
\* configured and the cooldown elapsed since the last successful send; the
\* timestamp in memory and the one on file change only in a step that sent
\* an alert, forced or not, and then to the time of the send; an alert that
\* fetched no price or whose send failed leaves both as they were.
C18_AlertCooldown ==
  [][ /\ (pc = "alert" /\ AlertSent)
         => /\ TELEGRAM_CHAT_ID # NoChat
            /\ \/ btc_last_sent_ts = 0
               \/ now_ts - btc_last_sent_ts >= BTC_ALERT_SECONDS
      /\ AlertSent => btc_last_sent_ts' = now_ts /\ btc_file' \in {btc_file, now_ts}
      /\ ~AlertSent => UNCHANGED <<btc_last_sent_ts, btc_file>>
      /\ btc_last_sent_ts' <= now_ts
    ]_vars

\* The loop has sent an alert at time 1 + cooldown, the earliest time the
\* cooldown allows after the forced alert of the startup, and the time of
\* the send is in memory and on file.
C18_Witness ==
  /\ pc = "poll"
  /\ Len(msg_chat) >= 2
  /\ msg_chat[1] = TELEGRAM_CHAT_ID
  /\ btc_last_sent_ts = 1 + BTC_ALERT_SECONDS
  /\ btc_file = btc_last_sent_ts
  /\ now_ts = btc_last_sent_ts + 1

\* ---- C19 ---------------------------------------------------------------
\* C19: the process ends only for a missing mandatory configuration: a
\* failure of an external call, at startup or in the loop, never ends it.
C19_OnlyMissingConfigIsFatal ==
  pc = "dead" => TELEGRAM_BOT_TOKEN = ""

\* ---- C20 ---------------------------------------------------------------
\* C20: a cleanup job that has fired has attempted the delete of every
\* message of its set, whatever became of the deletes before.
C20_EveryDeleteAttempted ==
  \A k \in 1..Len(jobs) :
    jobs[k].fired => jobs[k].attempted = Len(jobs[k].msg_ids)

\* ---- C21 ---------------------------------------------------------------
\* The message identifiers a cleanup job is to delete, and the ones a
\* context holds (none for a user without a context).
JobIds(j) == {j.msg_ids[k] : k \in 1..Len(j.msg_ids)}
ContextIds(ctx) == IF ctx = NoCtx THEN {} ELSE {ctx.cmd_msg_id, ctx.menu_msg_id}

\* No identifier is in two jobs, and none of a live context is in a job,
\* pending or fired.
JobsApart ==
  /\ \A a \in 1..Len(jobs) : \A b \in 1..Len(jobs) :
       a # b => JobIds(jobs[a]) \cap JobIds(jobs[b]) = {}
  /\ \A u \in UserIds : \A k \in 1..Len(jobs) :
       ContextIds(wallet_context[u]) \cap JobIds(jobs[k]) = {}

\* A timer fires in this step.
TimerStep ==
  \E k \in 1..Len(jobs) : ~jobs[k].fired /\ jobs'[k].fired

\* C21: however the timers interleave with the dispatcher, no message
\* identifier is in more than one cleanup job, no identifier of a live
\* context is in a cleanup job, and a firing timer leaves the context map
\* and the update offset alone.
C21_CleanupDisjoint ==
  [][ /\ JobsApart
      /\ JobsApart'
      /\ TimerStep => UNCHANGED <<wallet_context, telegram_update_offset>>
    ]_vars

\* The job of a press has fired and the user holds a new context, made by
\* the third update of the run.
C21_Witness ==
  /\ \E k \in 1..Len(jobs) : jobs[k].fired /\ Len(jobs[k].msg_ids) = 3
  /\ wallet_context[1] # NoCtx
  /\ Len(dispatched) = 3

\* ---- C22 ---------------------------------------------------------------
\* The update ids of a batch.
BatchIds(b) == {b[k].update_id : k \in 1..Len(b)}

\* Update id was given to this process and confirmed to the platform by the
\* offset, and it is neither dispatched nor waiting in the batch.
Lost(id) ==
  /\ id < next_update_id
  /\ telegram_update_offset # None
  /\ id < telegram_update_offset
  /\ \A k \in 1..Len(dispatched) : dispatched[k] # id
  /\ id \notin BatchIds(batch)

\* The handler of the update at the head of the batch raises in this step.
HandlerRaises ==
  /\ pc = "dispatch"
  /\ dispatched' # dispatched
  /\ last'.raised

\* C22: when the handler of one update raises, the rest of the batch is
\* dropped while the process goes on to the alert and the next poll; the
\* offset being already past the whole batch, a dropped update is never
\* dispatched afterwards.
C22_RestOfBatchLost ==
  [][ /\ HandlerRaises
         => /\ batch' = <<>>
            /\ pc' = "alert"
            /\ \A id \in BatchIds(Tail(batch)) : Lost(id)'
      /\ \A id \in 1..(next_update_id - 1) : Lost(id) => Lost(id)'
    ]_vars

\* The handler of update 1 raised, update 2 of the same batch was dropped,
\* and the process has polled again without getting it.
C22_Witness ==
  /\ dispatched = <<1>>
  /\ last.raised
  /\ Lost(2)
  /\ last_poll = "empty"
  /\ pc \in {"alert", "poll"}

\* ---- C23 ---------------------------------------------------------------
\* Message id is in no cleanup job, in no live context and is not the
\* message of an update still waiting in the batch: nothing the process
\* holds names it.
Forgotten(id) ==
  /\ \A k \in 1..Len(jobs) : \A n \in 1..Len(jobs[k].msg_ids) : jobs[k].msg_ids[n] # id
  /\ \A u \in UserIds :
       wallet_context[u] = NoCtx
         \/ (wallet_context[u].cmd_msg_id # id /\ wallet_context[u].menu_msg_id # id)
  /\ \A k \in 1..Len(batch) : batch[k].message_id # id

\* The wallet-menu command of a user who holds a context is handled in this
\* step and its menu is sent.
ContextReplaced ==
  /\ pc = "dispatch"
  /\ dispatched' # dispatched
  /\ Upd.kind = "message"
  /\ wallet_context[Upd.user_id] # NoCtx
  /\ Len(last'.sends) = 1
  /\ last'.sends[1].text = WalletMenuText
  /\ last'.sends[1].res = "ok"

\* C23: a user holds at most one context, the one of their latest
\* wallet-menu command: the command issued again replaces the context, and
\* the command and menu messages of the replaced one are in no cleanup job
\* then or later.
C23_LastContextWins ==
  [][ /\ ContextReplaced
         => /\ wallet_context' =
                 [wallet_context EXCEPT ![Upd.user_id] =
                    [cmd_msg_id |-> Upd.message_id,
                     menu_msg_id |-> Len(msg_chat) + 1,
                     chat_id |-> Upd.chat_id]]
            /\ \A id \in {wallet_context[Upd.user_id].cmd_msg_id,
                          wallet_context[Upd.user_id].menu_msg_id} : Forgotten(id)'
      /\ \A id \in 1..Len(msg_chat) : Forgotten(id) => Forgotten(id)'
    ]_vars

\* The user issued the command twice and then pressed a button: the job of
\* the press holds the second command and menu, the first ones are in none.
C23_Witness ==
  /\ Len(dispatched) = 3
  /\ Len(jobs) = 1
  /\ jobs[1].msg_ids = <<3, 4, 5>>
  /\ msg_chat = <<"A", "A", "A", "A", "A">>
  /\ Forgotten(1)
  /\ Forgotten(2)
  /\ wallet_context[1] = NoCtx

\* ---- C24 ---------------------------------------------------------------
\* C24: the three messages of a cleanup job scheduled by a press (the
\* command, the menu and the result) are messages of the chat the job
\* deletes in, with or without a configured chat.
C24_JobInOneChat ==
  \A k \in 1..Len(jobs) :
    Len(jobs[k].msg_ids) = 3
      => \A n \in 1..3 : msg_chat[jobs[k].msg_ids[n]] = jobs[k].chat_id

====
